---------------------------- MODULE Spec2Model ----------------------------
(***************************************************************************)
(* A model of scripts/conversion/cah_to_text_messages.py: the batcher, the *)
(* two conversion pipelines, the cost estimator, the output writer and the *)
(* entry point main().                                                     *)
(*                                                                         *)
(* A Python str that the code takes apart (a service reply) is a sequence  *)
(* of one-character strings.  A call of a function either returns a value  *)
(* or raises: Return(v) and Raise(e).                                      *)
(***************************************************************************)
EXTENDS Integers, Sequences, FiniteSets, TLC

VARIABLES
    \* main()
    pc,               \* position of the thread of control
    exc,              \* the exception that left the program, "" if none
    args,             \* argparse namespace
    env_key,          \* os.getenv("OPENAI_API_KEY") is set
    black_cards,      \* main's local black_cards
    white_cards,      \* main's local white_cards
    estimated_cost,   \* main's local estimated_cost (NoValue before it is set)
    confirmation,     \* main's local confirmation ("<unset>" before input())
    files,            \* output path -> the lines written to it, if it was written
    log,              \* logger records and console prompts, in order
    \* convert_black_cards / convert_white_cards
    frame,            \* locals of the active convert_* call
    \* the world outside the process
    calls,            \* requests sent to client.chat.completions.create, in order
    sleeps,           \* time.sleep calls, in order
    expected,         \* history: what the replies of the successful calls hold
    outcomes,         \* history: per call of the active pipeline, TRUE iff it succeeded
    \* direct calls of the pure functions
    call,             \* the arguments of the call under study
    ret,              \* its result
    prev_ret          \* the result of the previous call

mainVars == <<args, env_key, black_cards, white_cards, estimated_cost,
              confirmation, files>>
worldVars == <<calls, sleeps, expected, outcomes>>
pureVars == <<call, ret, prev_ret>>
vars == <<pc, exc, mainVars, log, frame, worldVars, pureVars>>

-----------------------------------------------------------------------------
(* Bounds of the model *)

MaxCards == 3          \* cards handed to a convert_* call under study
MaxBatchSize == 2      \* largest --*-batch-size tried
MaxLimit == 2          \* largest --*-limit tried
MaxReplyLen == 3       \* characters in a service reply
MaxListLen == 5        \* length of the list handed to batch_cards
MaxStep == 3           \* largest batch size handed to batch_cards
MaxCount == 4          \* largest card count handed to estimate_cost

MinBatchSize == 0 - 1
MinLimit == 0 - 1

-----------------------------------------------------------------------------
(* Python values *)

NoValue == [kind |-> "none"]
Return(v) == [kind |-> "return", value |-> v]
Raise(e) == [kind |-> "raise", exc |-> e]

Min(a, b) == IF a <= b THEN a ELSE b
Max(a, b) == IF a >= b THEN a ELSE b

\* a // b of Python ints: floor division, ZeroDivisionError excluded by the caller
PyFloorDiv(a, b) == IF b > 0 THEN a \div b ELSE (0 - a) \div (0 - b)

\* list(range(0, stop, step)) for step # 0 and stop >= 0
PyRange0(stop, step) ==
    IF step < 0 \/ stop <= 0 THEN <<>>
    ELSE [k \in 1..(PyFloorDiv(stop - 1, step) + 1) |-> (k - 1) * step]

\* seq[lo:hi] for 0 <= lo <= hi
PySlice(seq, lo, hi) == SubSeq(seq, lo + 1, Min(hi, Len(seq)))

\* seq[:n] for any int n
PySliceTo(seq, n) ==
    IF n >= 0 THEN SubSeq(seq, 1, Min(n, Len(seq)))
    ELSE SubSeq(seq, 1, Max(Len(seq) + n, 0))

\* str.isspace of one character
IsSpace(c) == c \in {" ", "\n", "\t"}

RECURSIVE PyLStrip(_)
PyLStrip(s) == IF s # <<>> /\ IsSpace(Head(s)) THEN PyLStrip(Tail(s)) ELSE s

RECURSIVE PyRStrip(_)
PyRStrip(s) ==
    IF s # <<>> /\ IsSpace(s[Len(s)]) THEN PyRStrip(SubSeq(s, 1, Len(s) - 1)) ELSE s

\* str.strip()
PyStrip(s) == PyRStrip(PyLStrip(s))

\* str.split(sep) for a one-character sep: always at least one piece
RECURSIVE PySplit(_, _)
PySplit(s, sep) ==
    IF \A i \in 1..Len(s) : s[i] # sep THEN <<s>>
    ELSE LET i == CHOOSE j \in 1..Len(s) :
                      s[j] = sep /\ \A k \in 1..(j - 1) : s[k] # sep
         IN <<SubSeq(s, 1, i - 1)>> \o PySplit(SubSeq(s, i + 1, Len(s)), sep)

\* str.lower() of the console answers the model tries
PyLower(s) ==
    CASE s = "Y" -> "y"
      [] s = "N" -> "n"
      [] s = "Yes" -> "yes"
      [] OTHER -> s

RECURSIVE Concat(_)
Concat(ss) == IF ss = <<>> THEN <<>> ELSE Head(ss) \o Concat(Tail(ss))

Strs(Alphabet, n) == UNION {[1..k -> Alphabet] : k \in 0..n}

-----------------------------------------------------------------------------
(* batch_cards *)

batch_cards_short_slice(cards, batch_size) ==
    IF batch_size = 0 THEN Raise("ValueError")
    ELSE LET starts == PyRange0(Len(cards), batch_size)
         IN Return([k \in 1..Len(starts) |->
                        PySlice(cards, starts[k], starts[k] + batch_size - 1)])

\* [cards[i:i + batch_size] for i in range(0, len(cards), batch_size)]
\* range() raises ValueError for a step of zero and is empty for a negative one.
batch_cards(cards, batch_size) ==
    IF batch_size = 0 THEN Raise("ValueError")
    ELSE LET starts == PyRange0(Len(cards), batch_size)
         IN Return([k \in 1..Len(starts) |->
                        PySlice(cards, starts[k], starts[k] + batch_size)])

-----------------------------------------------------------------------------
(* estimate_cost *)

\* Prices in cents per 1K tokens, so that the estimate below is a whole
\* number of 1/100000 USD: (tokens / 1000) * price_in_USD = tokens * cents / 100000.
\* The code computes the same value in binary floating point; every float
\* operation it uses (division by 1000, multiplication by a positive price,
\* addition) is monotone under rounding, so an order between two exact
\* estimates is never reversed by the floats.
input_price_per_1k == 1
output_price_per_1k == 3
avg_input_tokens_per_black_card == 30
avg_output_tokens_per_black_card == 50
avg_input_tokens_per_white_card == 10
avg_output_tokens_per_white_card == 30
system_message_tokens == 300

batch_count_modulo(num_cards, batch_size) ==
    IF batch_size > 0 THEN (num_cards + batch_size - 1) % batch_size
    ELSE PyFloorDiv(num_cards + batch_size - 1, batch_size)

\* (num_cards + batch_size - 1) // batch_size
batch_count(num_cards, batch_size) ==
    PyFloorDiv(num_cards + batch_size - 1, batch_size)

estimate_cost(num_black_cards, num_white_cards, black_batch_size, white_batch_size) ==
    IF black_batch_size = 0 \/ white_batch_size = 0 THEN Raise("ZeroDivisionError")
    ELSE LET black_batches == batch_count(num_black_cards, black_batch_size)
             white_batches == batch_count(num_white_cards, white_batch_size)
             total_input_tokens ==
                 black_batches * system_message_tokens
                 + num_black_cards * avg_input_tokens_per_black_card
                 + white_batches * system_message_tokens
                 + num_white_cards * avg_input_tokens_per_white_card
             total_output_tokens ==
                 num_black_cards * avg_output_tokens_per_black_card
                 + num_white_cards * avg_output_tokens_per_white_card
             input_cost == total_input_tokens * input_price_per_1k
             output_cost == total_output_tokens * output_price_per_1k
         IN Return(input_cost + output_cost)
-----------------------------------------------------------------------------
(* The input files and the cards the runs are given *)

BlackDeck ==
    << [text |-> "Why did the _ cross the road?", pick |-> 1],
       [text |-> "_ + _ = _.", pick |-> 3],
       [text |-> "What ended my last relationship?", pick |-> 1],
       [text |-> "Step 1: _. Step 2: _.", pick |-> 2],
       [text |-> "I got 99 problems but _ ain't one.", pick |-> 1] >>

WhiteDeck ==
    << "a rubber chicken", "the IRS", "a bad haircut", "my inner demons",
       "free samples" >>

DefaultPath == "cah-all-compact.json"
OtherPath == "other.json"
MissingPath == "missing.json"
InputPaths == {DefaultPath, OtherPath, MissingPath}

\* json.load of the file at a path
FileData(path) ==
    CASE path = DefaultPath ->
             Return([black |-> SubSeq(BlackDeck, 1, 2), white |-> SubSeq(WhiteDeck, 1, 2)])
      [] path = OtherPath ->
             Return([black |-> SubSeq(BlackDeck, 3, 3), white |-> SubSeq(WhiteDeck, 3, 5)])
      [] OTHER -> Raise("FileNotFoundError")

\* load_cah_cards: data['black'], data['white'], or the exception re-raised
load_cah_cards(file_path) == FileData(file_path)

NoLimit == [is_none |-> TRUE, n |-> 0]
Limit(n) == [is_none |-> FALSE, n |-> n]
Limits == {NoLimit} \cup {Limit(n) : n \in MinLimit..MaxLimit}
BatchSizes == MinBatchSize..MaxBatchSize

\* bool(x) of an Optional[int]: None and 0 are falsy
PyTruthy(limit) == ~limit.is_none /\ limit.n # 0

\* if limit: cards = cards[:limit]
apply_limit(cards, limit) ==
    IF PyTruthy(limit) THEN PySliceTo(cards, limit.n) ELSE cards

BlackOutput == "text_prompts.txt"
WhiteOutput == "text_responses.txt"
Absent == [present |-> FALSE, lines |-> <<>>]
Written(messages) == [present |-> TRUE, lines |-> messages]

Answers == {"y", "Y", "n", "yes", ""}

affirmative_any_but_n(answer) == PyLower(answer) # "n"

\* not (confirmation.lower() != 'y')
affirmative(answer) == PyLower(answer) = "y"

Info(msg) == [level |-> "INFO", msg |-> msg]
Error(msg) == [level |-> "ERROR", msg |-> msg]
Prompt(msg) == [level |-> "PROMPT", msg |-> msg]

-----------------------------------------------------------------------------
(* convert_black_cards / convert_white_cards *)

NoFrame ==
    [fn |-> "", cards |-> <<>>, batch_size |-> 0, batches |-> <<>>,
     batch_idx |-> 0, converted |-> <<>>, ret_pc |-> ""]

\* The user message of one request: the header and the joined lines.
\* A black card is rendered with its pick count and the plural suffix.
user_message(fn, batch) ==
    IF fn = "convert_black_cards"
    THEN [header |-> "Please convert these Cards Against Humanity black cards into natural text messages:",
          body |-> [k \in 1..Len(batch) |->
                       [text |-> batch[k].text, pick |-> batch[k].pick,
                        plural |-> IF batch[k].pick > 1 THEN "s" ELSE ""]]]
    ELSE [header |-> "Please convert these Cards Against Humanity white cards into natural text message replies:",
          body |-> batch]

process_response_keep_empty(content) ==
    LET result == PySplit(PyStrip(content), "\n")
    IN [k \in 1..Len(result) |-> PyStrip(result[k])]

\* result = content.strip().split('\n'); [msg.strip() for msg in result if msg.strip()]
process_response(content) ==
    LET result == PySplit(PyStrip(content), "\n")
        kept == SelectSeq(result, LAMBDA msg : PyStrip(msg) # <<>>)
    IN [k \in 1..Len(kept) |-> PyStrip(kept[k])]

\* What the service does with one request: it raises, or it answers; an
\* answer's message content is a str, or None.
ApiError == [kind |-> "raise", exc |-> "APIError", has_content |-> FALSE, content |-> <<>>]
NoContent == [kind |-> "return", exc |-> "", has_content |-> FALSE, content |-> <<>>]
Reply(content) == [kind |-> "return", exc |-> "", has_content |-> TRUE, content |-> content]
ServiceOutcomes(Replies) == {ApiError, NoContent} \cup {Reply(c) : c \in Replies}

\* The body of the try block: the lines to append, or the exception caught.
\* None.strip() raises AttributeError.
try_block(outcome) ==
    IF outcome.kind = "raise" THEN Raise(outcome.exc)
    ELSE IF ~outcome.has_content THEN Raise("AttributeError")
    ELSE Return(process_response(outcome.content))

sleep_after_always_short(ok, batch_idx, n_batches) ==
    IF batch_idx < n_batches - 1 THEN <<1>> ELSE <<>>

\* The time.sleep calls that end one iteration: sleep(1) at the end of the try
\* block unless this is the last batch, sleep(5) in the except clause.
sleep_after(ok, batch_idx, n_batches) ==
    IF ok THEN (IF batch_idx < n_batches - 1 THEN <<1>> ELSE <<>>)
    ELSE <<5>>

next_batch_idx_skip(ok, batch_idx) == IF ok THEN batch_idx + 1 ELSE batch_idx + 2

\* enumerate(batches): the loop goes on to the next batch, whatever happened
next_batch_idx(ok, batch_idx) == batch_idx + 1

\* The reply's lines as the reader of the reply sees them: the maximal runs
\* of characters between line feeds, each cut down to what lies between its
\* first and its last non-blank character, the runs with no such character
\* left out.
LineSpans(s) ==
    {sp \in (1..Len(s)) \X (1..Len(s)) :
        /\ sp[1] <= sp[2]
        /\ \A k \in sp[1]..sp[2] : s[k] # "\n"
        /\ (sp[1] = 1 \/ s[sp[1] - 1] = "\n")
        /\ (sp[2] = Len(s) \/ s[sp[2] + 1] = "\n")
        /\ \E k \in sp[1]..sp[2] : ~IsSpace(s[k])}

TrimSpan(s, sp) ==
    LET ink == {k \in sp[1]..sp[2] : ~IsSpace(s[k])}
        lo == CHOOSE k \in ink : \A j \in ink : k <= j
        hi == CHOOSE k \in ink : \A j \in ink : k >= j
    IN SubSeq(s, lo, hi)

RECURSIVE SpansInOrder(_)
SpansInOrder(S) ==
    IF S = {} THEN <<>>
    ELSE LET first == CHOOSE sp \in S : \A o \in S : sp[1] <= o[1]
         IN <<first>> \o SpansInOrder(S \ {first})

ReplyLines(s) ==
    LET spans == SpansInOrder(LineSpans(s))
    IN [k \in 1..Len(spans) |-> TrimSpan(s, spans[k])]

\* Entry of convert_black_cards / convert_white_cards: the info record, the
\* empty output list and batches = batch_cards(cards, batch_size).
EnterConvert(fn, cards, batch_size, ret_pc) ==
    LET b == batch_cards(cards, batch_size)
    IN /\ log' = Append(log, Info(IF fn = "convert_black_cards"
                                   THEN "Converting black cards to text messages..."
                                   ELSE "Converting white cards to text message replies..."))
       /\ outcomes' = <<>>
       /\ IF b.kind = "raise"
          THEN /\ pc' = "raised"
               /\ exc' = b.exc
               /\ frame' = NoFrame
          ELSE /\ pc' = "in_convert"
               /\ exc' = exc
               /\ frame' = [fn |-> fn, cards |-> cards, batch_size |-> batch_size,
                            batches |-> b.value, batch_idx |-> 0,
                            converted |-> <<>>, ret_pc |-> ret_pc]

\* One iteration of the for loop: the request, then the try block to its end
\* or the except clause.
ProcessBatch(Replies) ==
    /\ pc = "in_convert"
    /\ frame.batch_idx < Len(frame.batches)
    /\ \E outcome \in ServiceOutcomes(Replies) :
          LET batch == frame.batches[frame.batch_idx + 1]
              got == try_block(outcome)
              ok == got.kind = "return"
          IN /\ calls' = Append(calls, [fn |-> frame.fn, batch_idx |-> frame.batch_idx,
                                         user |-> user_message(frame.fn, batch)])
             /\ frame' = [frame EXCEPT
                            !.converted = IF ok THEN @ \o got.value ELSE @,
                            !.batch_idx = next_batch_idx(ok, @)]
             /\ log' = IF ok THEN log ELSE Append(log, Error("Error in batch"))
             /\ sleeps' = sleeps \o
                    [k \in 1..Len(sleep_after(ok, frame.batch_idx, Len(frame.batches))) |->
                        [fn |-> frame.fn, after |-> frame.batch_idx,
                         secs |-> sleep_after(ok, frame.batch_idx, Len(frame.batches))[k]]]
             /\ expected' = IF outcome.kind = "return" /\ outcome.has_content
                            THEN expected \o ReplyLines(outcome.content)
                            ELSE expected
             /\ outcomes' = Append(outcomes, ok)
    /\ UNCHANGED <<pc, exc, mainVars, pureVars>>

\* return converted_messages / return converted_replies
ConvertReturn ==
    /\ pc = "in_convert"
    /\ frame.batch_idx >= Len(frame.batches)
    /\ pc' = frame.ret_pc
    /\ ret' = Return(frame.converted)
    /\ frame' = NoFrame
    /\ UNCHANGED <<exc, mainVars, log, worldVars, call, prev_ret>>

-----------------------------------------------------------------------------
(* save_to_file *)

\* The file is written whole, or open() fails and the error is logged; the
\* exception is caught inside save_to_file in both cases.
save_to_file(messages, output_file, opened) ==
    IF opened
    THEN /\ files' = [files EXCEPT ![output_file] = Written(messages)]
         /\ log' = Append(log, Info("Successfully saved messages"))
    ELSE /\ files' = files
         /\ log' = Append(log, Error("Error saving to file"))

-----------------------------------------------------------------------------
(* main *)

\* if not os.getenv("OPENAI_API_KEY"): logger.error(...); return
CheckApiKey ==
    /\ pc = "main"
    /\ IF ~env_key
       THEN /\ log' = Append(log, Error("OPENAI_API_KEY environment variable is not set"))
            /\ pc' = "returned"
       ELSE /\ log' = log
            /\ pc' = "load"
    /\ UNCHANGED <<exc, mainVars, frame, worldVars, pureVars>>

\* black_cards, white_cards = load_cah_cards(args.black_cards)
LoadCards ==
    /\ pc = "load"
    /\ LET data == load_cah_cards(args.black_cards)
       IN IF data.kind = "raise"
          THEN /\ log' = Append(log, Error("Error loading CAH cards"))
               /\ pc' = "raised"
               /\ exc' = data.exc
               /\ UNCHANGED <<black_cards, white_cards>>
          ELSE /\ black_cards' = data.value.black
               /\ white_cards' = data.value.white
               /\ pc' = "limits"
               /\ UNCHANGED <<log, exc>>
    /\ UNCHANGED <<args, env_key, estimated_cost, confirmation, files, frame,
                   worldVars, pureVars>>

\* if args.black_limit: ...  if args.white_limit: ...
ApplyLimits ==
    /\ pc = "limits"
    /\ black_cards' = apply_limit(black_cards, args.black_limit)
    /\ white_cards' = apply_limit(white_cards, args.white_limit)
    /\ pc' = "estimate"
    /\ UNCHANGED <<exc, args, env_key, estimated_cost, confirmation, files, log,
                   frame, worldVars, pureVars>>

\* estimate_cost(...), the estimate logged, and the --estimate-only exit
Estimate ==
    /\ pc = "estimate"
    /\ LET e == estimate_cost(Len(black_cards), Len(white_cards),
                              args.black_batch_size, args.white_batch_size)
       IN IF e.kind = "raise"
          THEN /\ pc' = "raised"
               /\ exc' = e.exc
               /\ UNCHANGED <<estimated_cost, log>>
          ELSE /\ estimated_cost' = e
               /\ exc' = exc
               /\ IF args.estimate_only
                  THEN /\ log' = log \o <<Info("Estimated cost"),
                                          Info("Estimate-only mode. Exiting without making API calls.")>>
                       /\ pc' = "returned"
                  ELSE /\ log' = Append(log, Info("Estimated cost"))
                       /\ pc' = "confirm"
    /\ UNCHANGED <<args, env_key, black_cards, white_cards, confirmation, files,
                   frame, worldVars, pureVars>>

\* confirmation = input(...); if confirmation.lower() != 'y': ...; return
Confirm ==
    /\ pc = "confirm"
    /\ \E answer \in Answers :
          /\ confirmation' = answer
          /\ IF affirmative(answer)
             THEN /\ log' = Append(log, Prompt("Do you want to proceed? (y/n)"))
                  /\ pc' = "convert_black"
             ELSE /\ log' = log \o <<Prompt("Do you want to proceed? (y/n)"),
                                     Info("Operation cancelled by user.")>>
                  /\ pc' = "returned"
    /\ UNCHANGED <<exc, args, env_key, black_cards, white_cards, estimated_cost,
                   files, frame, worldVars, pureVars>>

\* converted_black = convert_black_cards(black_cards, args.black_batch_size)
CallConvertBlack ==
    /\ pc = "convert_black"
    /\ EnterConvert("convert_black_cards", black_cards, args.black_batch_size,
                    "save_black")
    /\ UNCHANGED <<mainVars, calls, sleeps, expected, pureVars>>

\* save_to_file(converted_black, args.black_output)
SaveBlack ==
    /\ pc = "save_black"
    /\ \E opened \in BOOLEAN : save_to_file(ret.value, args.black_output, opened)
    /\ pc' = "convert_white"
    /\ UNCHANGED <<exc, args, env_key, black_cards, white_cards, estimated_cost,
                   confirmation, frame, worldVars, pureVars>>

\* converted_white = convert_white_cards(white_cards, args.white_batch_size)
CallConvertWhite ==
    /\ pc = "convert_white"
    /\ EnterConvert("convert_white_cards", white_cards, args.white_batch_size,
                    "save_white")
    /\ UNCHANGED <<mainVars, calls, sleeps, expected, pureVars>>

\* save_to_file(converted_white, args.white_output) and the closing record
SaveWhite ==
    /\ pc = "save_white"
    /\ \E opened \in BOOLEAN :
          /\ save_to_file(ret.value, args.white_output, opened)
    /\ pc' = "finish"
    /\ UNCHANGED <<exc, args, env_key, black_cards, white_cards, estimated_cost,
                   confirmation, frame, worldVars, pureVars>>

\* logger.info("Conversion completed successfully!")
Finish ==
    /\ pc = "finish"
    /\ log' = Append(log, Info("Conversion completed successfully!"))
    /\ pc' = "returned"
    /\ UNCHANGED <<exc, mainVars, frame, worldVars, pureVars>>

\* The one reply the service gives in the runs of main
MainReplies == {<<"o", "k", "\n", "\n", " ", "g", "o", " ">>}

Init ==
    /\ pc = "main"
    /\ exc = ""
    /\ args \in [black_cards : InputPaths, white_cards : {DefaultPath, OtherPath},
                 black_output : {BlackOutput}, white_output : {WhiteOutput},
                 black_batch_size : BatchSizes, white_batch_size : BatchSizes,
                 black_limit : Limits, white_limit : Limits,
                 estimate_only : BOOLEAN]
    /\ env_key \in BOOLEAN
    /\ black_cards = <<>>
    /\ white_cards = <<>>
    /\ estimated_cost = NoValue
    /\ confirmation = "<unset>"
    /\ files = [p \in {BlackOutput, WhiteOutput} |-> Absent]
    /\ log = <<>>
    /\ frame = NoFrame
    /\ calls = <<>>
    /\ sleeps = <<>>
    /\ expected = <<>>
    /\ outcomes = <<>>
    /\ call = NoValue
    /\ ret = NoValue
    /\ prev_ret = NoValue

Next ==
    \/ CheckApiKey
    \/ LoadCards
    \/ ApplyLimits
    \/ Estimate
    \/ Confirm
    \/ CallConvertBlack
    \/ ProcessBatch(MainReplies)
    \/ ConvertReturn
    \/ SaveBlack
    \/ CallConvertWhite
    \/ SaveWhite
    \/ Finish

Spec == Init /\ [][Next]_vars
-----------------------------------------------------------------------------
(* A convert_* call on its own: any cards, any batch size, any replies *)

DefaultArgs ==
    [black_cards |-> DefaultPath, white_cards |-> DefaultPath,
     black_output |-> BlackOutput, white_output |-> WhiteOutput,
     black_batch_size |-> 10, white_batch_size |-> 20,
     black_limit |-> NoLimit, white_limit |-> NoLimit, estimate_only |-> FALSE]

IdleMain ==
    /\ exc = ""
    /\ args = DefaultArgs
    /\ env_key = TRUE
    /\ black_cards = <<>>
    /\ white_cards = <<>>
    /\ estimated_cost = NoValue
    /\ confirmation = "<unset>"
    /\ files = [p \in {BlackOutput, WhiteOutput} |-> Absent]
    /\ log = <<>>
    /\ frame = NoFrame
    /\ calls = <<>>
    /\ sleeps = <<>>
    /\ expected = <<>>
    /\ outcomes = <<>>
    /\ ret = NoValue
    /\ prev_ret = NoValue

ReplyAlphabet == {"a", " ", "\n"}
AllReplies == Strs(ReplyAlphabet, MaxReplyLen)

InitPipeline ==
    /\ IdleMain
    /\ pc = "call_convert"
    /\ \E n \in 0..MaxCards, s \in BatchSizes :
          \/ call = [fn |-> "convert_black_cards", cards |-> SubSeq(BlackDeck, 1, n),
                     batch_size |-> s]
          \/ call = [fn |-> "convert_white_cards", cards |-> SubSeq(WhiteDeck, 1, n),
                     batch_size |-> s]

CallConvert ==
    /\ pc = "call_convert"
    /\ EnterConvert(call.fn, call.cards, call.batch_size, "convert_done")
    /\ UNCHANGED <<mainVars, calls, sleeps, expected, pureVars>>

NextPipeline ==
    \/ CallConvert
    \/ ProcessBatch(AllReplies)
    \/ ConvertReturn

SpecPipeline == InitPipeline /\ [][NextPipeline]_vars

-----------------------------------------------------------------------------
(* batch_cards on its own *)

InitBatch ==
    /\ IdleMain
    /\ pc = "call_batch_cards"
    /\ \E L \in Strs({"x", "y"}, MaxListLen), s \in MinBatchSize..MaxStep :
          call = [fn |-> "batch_cards", cards |-> L, batch_size |-> s]

CallBatchCards ==
    /\ pc = "call_batch_cards"
    /\ ret' = batch_cards(call.cards, call.batch_size)
    /\ pc' = "batch_done"
    /\ UNCHANGED <<exc, mainVars, log, frame, worldVars, call, prev_ret>>

NextBatch == CallBatchCards

SpecBatch == InitBatch /\ [][NextBatch]_vars

-----------------------------------------------------------------------------
(* estimate_cost on its own, called again after one count is raised by one *)

InitCost ==
    /\ IdleMain
    /\ pc = "call_estimate_cost"
    /\ \E nb \in 0..MaxCount, nw \in 0..MaxCount,
          bs \in MinBatchSize..MaxStep, ws \in MinBatchSize..MaxStep :
          call = [fn |-> "estimate_cost", num_black_cards |-> nb,
                  num_white_cards |-> nw, black_batch_size |-> bs,
                  white_batch_size |-> ws, raised |-> "none"]

CallEstimateCost ==
    /\ pc = "call_estimate_cost"
    /\ ret' = estimate_cost(call.num_black_cards, call.num_white_cards,
                            call.black_batch_size, call.white_batch_size)
    /\ prev_ret' = ret
    /\ pc' = "estimated"
    /\ UNCHANGED <<exc, mainVars, log, frame, worldVars, call>>

RaiseBlackCount ==
    /\ pc = "estimated"
    /\ call.num_black_cards < MaxCount
    /\ call' = [call EXCEPT !.num_black_cards = @ + 1, !.raised = "black"]
    /\ pc' = "call_estimate_cost"
    /\ UNCHANGED <<exc, mainVars, log, frame, worldVars, ret, prev_ret>>

RaiseWhiteCount ==
    /\ pc = "estimated"
    /\ call.num_white_cards < MaxCount
    /\ call' = [call EXCEPT !.num_white_cards = @ + 1, !.raised = "white"]
    /\ pc' = "call_estimate_cost"
    /\ UNCHANGED <<exc, mainVars, log, frame, worldVars, ret, prev_ret>>

NextCost ==
    \/ CallEstimateCost
    \/ RaiseBlackCount
    \/ RaiseWhiteCount

SpecCost == InitCost /\ [][NextCost]_vars
-----------------------------------------------------------------------------
(* Properties *)

\* The k-th batch of a partition of cards into runs of s > 0 cards
Chunk(cards, s, k) == SubSeq(cards, (k - 1) * s + 1, Min(k * s, Len(cards)))

\* The number of batches the loop of a convert_* call is to go through
NumChunks(n, s) == IF s > 0 THEN (n + s - 1) \div s ELSE 0

IsBlank(line) == \A i \in 1..Len(line) : IsSpace(line[i])

\* C1: for every list L and batch size s > 0, batch_cards(L, s) returns
\* batches whose concatenation in order is L, and every batch but the last
\* has exactly s elements.
C1_BatchesPartition ==
    (pc = "batch_done" /\ call.batch_size > 0) =>
        /\ ret.kind = "return"
        /\ Concat(ret.value) = call.cards
        /\ \A k \in 1..(Len(ret.value) - 1) : Len(ret.value[k]) = call.batch_size

C1_Witness ==
    /\ pc = "batch_done"
    /\ call.batch_size = 2
    /\ call.cards = <<"x", "y", "y", "x", "y">>
    /\ ret.kind = "return"
    /\ Len(ret.value) = 3
    /\ ret.value[3] = <<"y">>

\* C2: whatever the service calls do, a convert_* call sends one request per
\* batch, in batch order, goes through every batch, and returns its output
\* list; the only exception that leaves it is the ValueError of a batch size
\* of zero, raised before the first request.
C2_OneCallPerBatchInOrder ==
    LET n == NumChunks(Len(call.cards), call.batch_size)
        sent(k) == [fn |-> call.fn, batch_idx |-> k - 1,
                    user |-> user_message(call.fn, Chunk(call.cards, call.batch_size, k))]
    IN /\ pc = "in_convert" =>
              /\ Len(calls) = frame.batch_idx
              /\ Len(calls) <= n
              /\ \A k \in 1..Len(calls) : calls[k] = sent(k)
       /\ pc = "convert_done" =>
              /\ Len(calls) = n
              /\ \A k \in 1..n : calls[k] = sent(k)
              /\ ret.kind = "return"
       /\ pc = "raised" => (call.batch_size = 0 /\ calls = <<>>)

C2_Witness ==
    /\ pc = "convert_done"
    /\ call.fn = "convert_black_cards"
    /\ outcomes = <<TRUE, FALSE, TRUE>>
    /\ Len(calls) = 3
    /\ ret.kind = "return"

\* The time.sleep calls of a convert_* call, from what happened to its batches
Delays(fn, oks, n, short_after_failure, none_after_last_failure) ==
    Concat([k \in 1..Len(oks) |->
               IF oks[k]
               THEN (IF k < n THEN <<[fn |-> fn, after |-> k - 1, secs |-> 1]>> ELSE <<>>)
               ELSE IF short_after_failure
                    THEN (IF k < n THEN <<[fn |-> fn, after |-> k - 1, secs |-> 1]>> ELSE <<>>)
                    ELSE IF none_after_last_failure /\ k = n THEN <<>>
                    ELSE <<[fn |-> fn, after |-> k - 1, secs |-> 5]>>])

\* C3 (as amended): after each batch of a convert_* call exactly one delay is
\* waited or none: the 1-second delay after a batch that succeeded and is not
\* the last, no delay after a last batch that succeeded, and the 5-second
\* cooldown, without the 1-second delay, after every batch that failed, the
\* last one included.
C3_DelaysByOutcome ==
    pc \in {"in_convert", "convert_done"} =>
        sleeps = Delays(call.fn, outcomes,
                        NumChunks(Len(call.cards), call.batch_size), FALSE, FALSE)

C3_Witness ==
    /\ pc = "convert_done"
    /\ outcomes = <<FALSE, TRUE, FALSE>>
    /\ Len(sleeps) = 3
    /\ sleeps[1].secs = 5
    /\ sleeps[2].secs = 1
    /\ sleeps[3].secs = 5

\* C3 (as claimed): between any two consecutive batches, whether the earlier
\* one succeeded or failed, the 1-second delay is waited, and no delay is
\* waited after the last batch.
C3_ShortDelayBetweenAllBatches ==
    pc = "convert_done" =>
        sleeps = Delays(call.fn, outcomes,
                        NumChunks(Len(call.cards), call.batch_size), TRUE, TRUE)

\* C4: the output list of a convert_* call is the concatenation, in batch
\* order, of the trimmed non-empty lines of the replies of the calls that
\* succeeded, a failed batch adds nothing, and no element is empty or blank.
C4_OutputIsReplyLines ==
    /\ pc = "in_convert" =>
          /\ frame.converted = expected
          /\ \A k \in 1..Len(frame.converted) : ~IsBlank(frame.converted[k])
    /\ pc = "convert_done" =>
          /\ ret.value = expected
          /\ \A k \in 1..Len(ret.value) : ~IsBlank(ret.value[k])

C4_Witness ==
    /\ pc = "convert_done"
    /\ outcomes = <<TRUE, FALSE, TRUE>>
    /\ ret.value = << <<"a", " ", "a">>, <<"a">>, <<"a">> >>

\* C5: a request is sent or an output file written only in a run that has
\* the credential, loaded its input file, is not estimate-only and was
\* answered y (in either case) at the prompt; and the estimate is logged
\* before the prompt is shown.
C5_NoCallWithoutConsent ==
    /\ (calls # <<>> \/ \E p \in DOMAIN files : files[p].present) =>
          /\ env_key
          /\ FileData(args.black_cards).kind = "return"
          /\ ~args.estimate_only
          /\ confirmation \in {"y", "Y"}
    /\ \A k \in 1..Len(log) :
          log[k].level = "PROMPT" =>
              \E j \in 1..(k - 1) : log[j] = Info("Estimated cost")

C5_Witness ==
    /\ pc = "returned"
    /\ confirmation = "Y"
    /\ Len(calls) = 3
    /\ files[BlackOutput].present
    /\ files[WhiteOutput].present

\* C6: a failed write of an output file ends the run: no request for white
\* cards follows a failed write of the black output, and the run does not
\* log that the conversion completed successfully.
C6_WriteFailureIsFatal ==
    (\E k \in 1..Len(log) : log[k] = Error("Error saving to file")) =>
        /\ \A k \in 1..Len(calls) : calls[k].fn # "convert_white_cards"
        /\ \A k \in 1..Len(log) : log[k] # Info("Conversion completed successfully!")

\* C7: for every batch size s <= 0, batch_cards(L, s) raises; it never
\* returns a list of batches.
C7_NonPositiveSizeRaises ==
    (pc = "batch_done" /\ call.batch_size <= 0) => ret.kind = "raise"

\* C8: for positive batch sizes, raising the black count or the white count
\* by one, the rest unchanged, never lowers the estimate.
C8_EstimateMonotone ==
    (/\ pc = "estimated"
     /\ call.raised # "none"
     /\ call.black_batch_size > 0
     /\ call.white_batch_size > 0) =>
        /\ ret.kind = "return"
        /\ prev_ret.kind = "return"
        /\ ret.value >= prev_ret.value

C8_Witness ==
    /\ pc = "estimated"
    /\ call.raised = "black"
    /\ call.num_black_cards = 3
    /\ call.black_batch_size = 2
    /\ call.white_batch_size = 1
    /\ prev_ret.kind = "return"
    /\ ret.value > prev_ret.value

\* C9: the white cards main works on are those of the file named by
\* --white-cards, the black cards those of the file named by --black-cards.
C9_WhiteCardsFromWhitePath ==
    pc = "limits" =>
        /\ black_cards = FileData(args.black_cards).value.black
        /\ white_cards = FileData(args.white_cards).value.white

\* C10: with a limit n >= 0 for a category, the cards estimated and
\* converted are the first min(n, len) loaded cards (none for n = 0); with
\* no limit, all loaded cards.
C10_LimitTruncates ==
    pc = "estimate" =>
        LET loaded == FileData(args.black_cards).value
            limited(cards, limit) ==
                IF limit.is_none THEN cards
                ELSE SubSeq(cards, 1, Min(limit.n, Len(cards)))
        IN /\ args.black_limit.n >= 0 =>
                  black_cards = limited(loaded.black, args.black_limit)
           /\ args.white_limit.n >= 0 =>
                  white_cards = limited(loaded.white, args.white_limit)

=============================================================================
